---- MODULE Spec2Model ----
(***************************************************************************)
(* Model of the data-access layer (DatabaseStorage) and the request        *)
(* handlers of the regional polling application.  The database tables are  *)
(* sets of rows; every `await db...` of a handler is one step, so that     *)
(* requests interleave exactly where the code yields.  A transaction       *)
(* (db.transaction) is one step: its writes become visible at commit.      *)
(***************************************************************************)
EXTENDS Integers, Sequences, FiniteSets, TLC

\* ------------------------------------------------------------------ bounds
MaxOps == 2          \* requests that get past their checks in one behaviour
MaxInFlight == 2     \* request slots (requests that can overlap)
MaxPolls == 2        \* polls in the databases the read requests are served on
MaxCount == 23       \* votes per option in the databases percentages are read from

Reqs == 1..MaxInFlight
Users == {"u1", "u2"}
Questions == {"q1", "q2"}
OptionLists == {<<"a">>, <<"a", "b">>}
CommentTexts == {"", "hi"}
CreateRegionIds == {4}   \* the regionId of the polls the write handlers create

VARIABLES
    votes,        \* table votes: rows [id, question, creatorId, regionId, isActive,
                  \* endsAt, createdAt]; endsAt 0 is null
    voteOptions,  \* table vote_options: rows [id, voteId, text, voteCount]
    userVotes,    \* table user_votes: rows [id, userId, voteId, optionId]
    comments,     \* table comments: rows [id, voteId, userId, content]
    likes,        \* table likes: rows [id, voteId, userId]
    userRegions,  \* table user_regions: rows [userId, regionId, isSelected]
    nextId,       \* the serial sequences of the first five tables
    req,          \* the requests in flight or just answered, one per slot
    nops,         \* requests that got past their checks so far
    mode,         \* "overlap": requests interleave; "serial": one request at a time
    hist,         \* serial mode: the last request, with the tables as it found
                  \* them and the answer it got, after the request before it
                  \* if that one was answered "ok"
    view          \* the last read request (GET /api/votes, GET /api/votes/:id)
                  \* and the response it got

vars == <<votes, voteOptions, userVotes, comments, likes, userRegions, nextId, req,
          nops, mode, hist, view>>
db == <<votes, voteOptions, userVotes, comments, likes, userRegions>>
Tables == [votes |-> votes, voteOptions |-> voteOptions, userVotes |-> userVotes,
           comments |-> comments, likes |-> likes, userRegions |-> userRegions]

\* ------------------------------------------------------------- error kinds
\* Messages of the errors the storage layer throws.
MsgAlreadyVoted == "User has already voted on this poll"
MsgNoPermission == "no permission"       \* the messages ending in "권한이 없습니다"
MsgDb == "db error"                      \* constraint violation or lost connection

\* catch block of POST /api/votes/:id/cast
CastVoteCatch(msg) == IF msg = MsgAlreadyVoted THEN "AlreadyVoted" ELSE "InternalError"
\* catch block of PUT /api/votes/:id
UpdateVoteCatchNoMap(msg) == "InternalError"
UpdateVoteCatch(msg) == IF msg = MsgNoPermission THEN "Forbidden" ELSE "InternalError"
\* catch block of DELETE /api/votes/:id
DeleteVoteCatchNoMap(msg) == "InternalError"
DeleteVoteCatch(msg) == IF msg = MsgNoPermission THEN "Forbidden" ELSE "InternalError"
\* catch blocks of the like and comment routes: every error is a 500
GenericCatch(msg) == "InternalError"

\* ---------------------------------------------------------------- queries
VoteRow(p) == {v \in votes : v.id = p}
VoteExists(p) == VoteRow(p) # {}
OptionsOf(p) == {o \in voteOptions : o.voteId = p}
OptionExists(o) == \E x \in voteOptions : x.id = o
OptionIds(rows) == {o.id : o \in rows}

\* DatabaseStorage.hasUserVoted
hasUserVotedNever(u, p) == FALSE
hasUserVoted(u, p) == \E uv \in userVotes : uv.userId = u /\ uv.voteId = p
\* DatabaseStorage.hasUserLiked
hasUserLiked(u, p) == \E l \in likes : l.userId = u /\ l.voteId = p
\* DatabaseStorage.getLikesCount
getLikesCount(p) == Cardinality({l \in likes : l.voteId = p})

\* ------------------------------------------------------------ percentages
\* JavaScript numbers are IEEE 754 doubles.  A positive double is [bits, exp]:
\* bits is its significand, Precision binary digits of which the first is 1,
\* and exp the exponent of that first digit (the weight of bits[i] is
\* 2^(exp - i + 1)).
Precision == 53

RECURSIVE BitsOf(_)
BitsOf(n) == IF n = 0 THEN <<>> ELSE Append(BitsOf(n \div 2), n % 2)

RECURSIVE ValueOf(_)
ValueOf(bits) ==
    IF bits = <<>> THEN 0
    ELSE 2 * ValueOf(SubSeq(bits, 1, Len(bits) - 1)) + bits[Len(bits)]

\* bits + 1, for bits that are not all 1
Increment(bits) ==
    LET last0 == CHOOSE k \in DOMAIN bits :
                     bits[k] = 0 /\ \A i \in DOMAIN bits : i > k => bits[i] = 1
    IN [i \in DOMAIN bits |-> IF i < last0 THEN bits[i] ELSE IF i = last0 THEN 1 ELSE 0]

\* round to nearest, ties to even: `dropped` is how the digits cut off compare
\* with half a unit in the last place (-1 below, 0 equal, 1 above)
RoundToNearestEven(bits, exp, dropped) ==
    IF dropped < 0 \/ (dropped = 0 /\ bits[Precision] = 0)
    THEN [bits |-> bits, exp |-> exp]
    ELSE IF \A i \in 1..Precision : bits[i] = 1
    THEN [bits |-> [i \in 1..Precision |-> IF i = 1 THEN 1 ELSE 0], exp |-> exp + 1]
    ELSE [bits |-> Increment(bits), exp |-> exp]

\* the digits of c / t by long division: r is the remainder, scaled so that the
\* next digit is 1 exactly when r >= t
RECURSIVE QuotientBits(_, _, _, _)
QuotientBits(r, t, bits, exp) ==
    IF Len(bits) = Precision THEN [bits |-> bits, exp |-> exp, rem |-> r]
    ELSE LET b == IF r >= t THEN 1 ELSE 0
             r2 == 2 * (r - b * t)
         IN IF bits = <<>> /\ b = 0
            THEN QuotientBits(r2, t, bits, exp - 1)
            ELSE QuotientBits(r2, t, Append(bits, b), exp)

\* the double c / t, for integers 0 < c <= t
Divide(c, t) ==
    LET q == QuotientBits(c, t, <<>>, 0)
    IN RoundToNearestEven(q.bits, q.exp,
                          IF q.rem > t THEN 1 ELSE IF q.rem = t THEN 0 ELSE -1)

\* the digits of bits * k: digit by digit from the last, with a carry
MulSmall(bits, k) ==
    LET n == Len(bits)
        carry[i \in 0..n] == IF i = 0 THEN 0
                             ELSE (bits[n + 1 - i] * k + carry[i - 1]) \div 2
    IN BitsOf(carry[n]) \o
       [j \in 1..n |-> (bits[j] * k + carry[n - j]) % 2]

\* the double d * k, for an integer 1 < k < 128
Times(d, k) ==
    LET product == MulSmall(d.bits, k)
        n == Len(product)
        rest == SubSeq(product, Precision + 1, n)
    IN RoundToNearestEven(SubSeq(product, 1, Precision), d.exp + (n - Precision),
          IF rest[1] = 0 THEN -1
          ELSE IF \E i \in 2..Len(rest) : rest[i] = 1 THEN 1 ELSE 0)

\* Math.round of a double below 2^Precision: the nearest integer, a half
\* rounding up
MathRound(d) ==
    IF d.exp < -1 THEN 0
    ELSE ValueOf(SubSeq(d.bits, 1, d.exp + 1)) + d.bits[d.exp + 2]

\* Math.round((c / t) * 100), for integers 0 <= c <= t, 0 < t
RoundedPercent(c, t) == IF c = 0 THEN 0 ELSE MathRound(Times(Divide(c, t), 100))

\* RoundedPercent, computed once for every total a poll of the model can have
MaxTotal == MaxCount + MaxCount
RoundedPercents == [t \in 1..MaxTotal |-> [c \in 0..t |-> RoundedPercent(c, t)]]

\* totalVotes > 0 ? Math.round(((option.voteCount || 0) / totalVotes) * 100) : 0
percentage(c, t) == IF t > 0 THEN RoundedPercents[t][c] ELSE 0

\* --------------------------------------------------------------- requests
\* no read request has been made
NoView == [op |-> "none", region |-> 0, vote |-> 0, user |-> "", sortBy |-> "",
           search |-> <<>>,
           result |-> "", polls |-> <<>>]

Idle == [op |-> "none", pc |-> "idle", user |-> "", vote |-> 0, option |-> 0,
         comment |-> 0, question |-> "", texts |-> <<>>, idx |-> 0,
         existing |-> FALSE, result |-> "", liked |-> FALSE, count |-> 0,
         peer |-> 0, region |-> 0]

Free(r) == req[r].pc \in {"idle", "done"}
InFlight(r) == ~Free(r)

\* a request arrives in the lowest free slot; in serial mode, only when the
\* request before it has been answered
CanStart(r) == /\ Free(r)
               /\ \A s \in Reqs : s < r => ~Free(s)
               /\ mode = "serial" => \A s \in Reqs : Free(s)

New(o, u, p) == [Idle EXCEPT !.op = o, !.user = u, !.vote = p]

\* the response is sent: the handler's locals are gone, the answer remains
\* (its kind and, for a like, the `liked` and `likesCount` of the body)
Answer(rq, res) == [Idle EXCEPT !.op = rq.op, !.pc = "done", !.result = res,
                               !.liked = rq.liked, !.count = rq.count,
                               !.peer = rq.peer]

\* A request that got past its checks (it is in flight, or answered "ok").
Counts(rq) == rq.pc # "done" \/ rq.result = "ok"

\* serial mode: the entry of the request `a` that arrives now, and the entry
\* completed by the answer `rq`
Entry(a) == [op |-> a.op, user |-> a.user, vote |-> a.vote, option |-> a.option,
             comment |-> a.comment, question |-> a.question, texts |-> a.texts,
             region |-> a.region,
             before |-> Tables, result |-> "", liked |-> FALSE, count |-> 0]
Answered(e, rq) == IF rq.pc = "done"
                   THEN [e EXCEPT !.result = rq.result, !.liked = rq.liked,
                                  !.count = rq.count]
                   ELSE e
Last(h) == h[Len(h)]

\* Slot r takes the request `a`, which its first step leaves as `rq`.  The
\* answers of earlier requests have been sent and are forgotten; requests that
\* got past their checks are counted.
Begin(r, a, rq) ==
    /\ Counts(rq) => nops < MaxOps
    /\ req' = [s \in Reqs |->
                 IF s = r THEN rq
                 ELSE IF req[s].pc = "done" THEN Idle
                 ELSE IF req[s].peer = r THEN [req[s] EXCEPT !.peer = 0]
                 ELSE req[s]]
    /\ nops' = IF Counts(rq) THEN nops + 1 ELSE nops
    /\ hist' = IF mode = "serial"
               THEN (IF hist # <<>> /\ Last(hist).result = "ok"
                     THEN <<Last(hist)>> ELSE <<>>)
                    \o <<Answered(Entry(a), rq)>>
               ELSE hist
    /\ UNCHANGED <<mode, view>>

\* the next step of the request in slot r leaves it as `rq`
Record(rq) == hist' = IF mode = "serial"
                      THEN [hist EXCEPT ![Len(hist)] = Answered(@, rq)]
                      ELSE hist
Step(r, rq) == /\ req' = [req EXCEPT ![r] = rq]
               /\ Record(rq)
               /\ UNCHANGED <<nops, mode, view>>

\* The database after user u1 has created a first poll with two options
\* (createVote run to its end on the empty database), and the likes `liked`
\* that poll has got since; no request in flight.
StartWith(liked) ==
    /\ votes = {[id |-> 1, question |-> "q1", creatorId |-> "u1",
                  regionId |-> 4, isActive |-> TRUE, endsAt |-> 0, createdAt |-> 1]}
    /\ voteOptions = {[id |-> 1, voteId |-> 1, text |-> "a", voteCount |-> 0],
                      [id |-> 2, voteId |-> 1, text |-> "b", voteCount |-> 0]}
    /\ userVotes = {}
    /\ comments = {}
    /\ userRegions = {}
    /\ likes = liked
    /\ nextId = [vote |-> 2, option |-> 3, userVote |-> 1, comment |-> 1,
                 like |-> 1 + Cardinality(liked)]
    /\ req = [r \in Reqs |-> Idle]
    /\ nops = 0
    /\ hist = <<>>
    /\ view = NoView

Init == StartWith({}) /\ mode = "overlap"
SerialInit == StartWith({}) /\ mode = "serial"

\* the first poll, liked by u2 (toggleLike run once to its end) or not
LikedOrNot == {{}, {[id |-> 1, voteId |-> 1, userId |-> "u2"]}}
LikeInit == (\E liked \in LikedOrNot : StartWith(liked)) /\ mode = "overlap"
SerialLikeInit == (\E liked \in LikedOrNot : StartWith(liked)) /\ mode = "serial"

\* The database after u1 and u2 have each created a poll with two options, and
\* each has commented on and liked the other's poll; no request in flight,
\* requests served one at a time.
SerialTwoPollInit ==
    /\ votes = {[id |-> 1, question |-> "q1", creatorId |-> "u1",
                  regionId |-> 4, isActive |-> TRUE, endsAt |-> 0, createdAt |-> 1],
                 [id |-> 2, question |-> "q2", creatorId |-> "u2",
                  regionId |-> 4, isActive |-> TRUE, endsAt |-> 0, createdAt |-> 2]}
    /\ voteOptions = {[id |-> 1, voteId |-> 1, text |-> "a", voteCount |-> 0],
                      [id |-> 2, voteId |-> 1, text |-> "b", voteCount |-> 0],
                      [id |-> 3, voteId |-> 2, text |-> "a", voteCount |-> 0],
                      [id |-> 4, voteId |-> 2, text |-> "b", voteCount |-> 0]}
    /\ userVotes = {}
    /\ comments = {[id |-> 1, voteId |-> 1, userId |-> "u2", content |-> "hi"],
                   [id |-> 2, voteId |-> 2, userId |-> "u1", content |-> "hi"]}
    /\ userRegions = {}
    /\ likes = {[id |-> 1, voteId |-> 1, userId |-> "u2"],
                [id |-> 2, voteId |-> 2, userId |-> "u1"]}
    /\ nextId = [vote |-> 3, option |-> 5, userVote |-> 1, comment |-> 3, like |-> 3]
    /\ req = [r \in Reqs |-> Idle]
    /\ nops = 0
    /\ hist = <<>>
    /\ view = NoView
    /\ mode = "serial"

\* ------------------------------------------------------------- createVote
\* created_at defaultNow(): the clock of the write handlers is logical, a poll
\* created later has a later timestamp
Now == nextId.vote

\* options: z.array(z.string()).min(2, ...) of createVoteRequestSchema
OptionsValidAny(texts) == TRUE
OptionsValid(texts) == Len(texts) >= 2

\* POST /api/votes: the zod schema rejects fewer than two options (the polls
\* created are active and have no end: isActive true, endsAt null); then
\* DatabaseStorage.createVote inserts the poll row (first await).
CreateVoteReq(r, u, q, g, texts) ==
    LET a == [New("createVote", u, 0) EXCEPT !.question = q, !.texts = texts]
    IN /\ CanStart(r)
       /\ IF ~OptionsValid(texts)
          THEN /\ Begin(r, a, Answer(a, "ValidationError"))
               /\ UNCHANGED <<db, nextId>>
          ELSE /\ votes' = votes \cup
                      {[id |-> nextId.vote, question |-> q, creatorId |-> u,
                        regionId |-> g, isActive |-> TRUE, endsAt |-> 0,
                        createdAt |-> Now]}
               /\ nextId' = [nextId EXCEPT !.vote = @ + 1]
               /\ Begin(r, a, [a EXCEPT !.vote = nextId.vote, !.question = "",
                                        !.pc = "options", !.idx = 1])
               /\ UNCHANGED <<userRegions, voteOptions, userVotes, comments, likes>>

CreateVote(r) ==
    \E u \in Users, q \in Questions, g \in CreateRegionIds, texts \in OptionLists :
        CreateVoteReq(r, u, q, g, texts)

\* one round of the loop `for (const text of optionTexts) await db.insert(voteOptions)`
CreateOption(r) ==
    /\ req[r].pc = "options"
    /\ IF ~VoteExists(req[r].vote)
       THEN \* foreign key vote_options.vote_id
            /\ Step(r, Answer(req[r], GenericCatch(MsgDb)))
            /\ UNCHANGED <<db, nextId>>
       ELSE /\ voteOptions' = voteOptions \cup
                   {[id |-> nextId.option, voteId |-> req[r].vote,
                     text |-> req[r].texts[req[r].idx], voteCount |-> 0]}
            /\ nextId' = [nextId EXCEPT !.option = @ + 1]
            /\ IF req[r].idx = Len(req[r].texts)
               THEN Step(r, Answer(req[r], "ok"))
               ELSE Step(r, [req[r] EXCEPT !.idx = @ + 1])
            /\ UNCHANGED <<userRegions, votes, userVotes, comments, likes>>

\* --------------------------------------------------------------- castVote
\* the rows a foreign key of user_votes needs
UserVoteRefsOk(p, o) == VoteExists(p) /\ OptionExists(o)

\* INSERT INTO user_votes: the table has no unique constraint on (user, poll)
InsertUserVoteReplace(row) ==
    {x \in userVotes : x.userId # row.userId \/ x.voteId # row.voteId} \cup {row}
InsertUserVote(row) == userVotes \cup {row}

\* UPDATE vote_options SET vote_count = vote_count + 1 WHERE id = o
IncrementVoteCountOfPoll(o) ==
    {IF \E y \in voteOptions : y.id = o /\ y.voteId = x.voteId
     THEN [x EXCEPT !.voteCount = @ + 1] ELSE x : x \in voteOptions}
IncrementVoteCount(o) ==
    {IF x.id = o THEN [x EXCEPT !.voteCount = @ + 1] ELSE x : x \in voteOptions}

\* POST /api/votes/:id/cast, up to the already-voted check of castVote
CastVoteReq(r, u, p, o) ==
    LET a == [New("castVote", u, p) EXCEPT !.option = o]
    IN /\ CanStart(r)
       /\ IF hasUserVoted(u, p)
          THEN Begin(r, a, Answer(a, CastVoteCatch(MsgAlreadyVoted)))
          ELSE Begin(r, a, [a EXCEPT !.pc = "insert"])
       /\ UNCHANGED <<db, nextId>>

CastVote(r) ==
    \E u \in Users, p \in 1..nextId.vote, o \in 1..nextId.option : CastVoteReq(r, u, p, o)

\* await db.insert(userVotes)
CastInsert(r) ==
    /\ req[r].pc = "insert"
    /\ IF UserVoteRefsOk(req[r].vote, req[r].option)
       THEN /\ userVotes' = InsertUserVote(
                   [id |-> nextId.userVote, userId |-> req[r].user,
                    voteId |-> req[r].vote, optionId |-> req[r].option])
            /\ nextId' = [nextId EXCEPT !.userVote = @ + 1]
            /\ Step(r, [req[r] EXCEPT !.pc = "increment"])
            /\ UNCHANGED <<userRegions, votes, voteOptions, comments, likes>>
       ELSE /\ Step(r, Answer(req[r], CastVoteCatch(MsgDb)))
            /\ UNCHANGED <<db, nextId>>

\* await db.update(voteOptions)
CastIncrement(r) ==
    /\ req[r].pc = "increment"
    /\ voteOptions' = IncrementVoteCount(req[r].option)
    /\ Step(r, Answer(req[r], "ok"))
    /\ UNCHANGED <<userRegions, votes, userVotes, comments, likes, nextId>>

\* ------------------------------------------------------------- updateVote
\* PUT /api/votes/:id: the route's validation, then the ownership check
UpdateVoteReq(r, u, p, q, texts) ==
    LET a == [New("updateVote", u, p) EXCEPT !.question = q, !.texts = texts]
    IN /\ CanStart(r)
       /\ IF Len(texts) < 2
          THEN Begin(r, a, Answer(a, "ValidationError"))
          ELSE IF \A v \in VoteRow(p) : v.creatorId # u
          THEN Begin(r, a, Answer(a, UpdateVoteCatch(MsgNoPermission)))
          ELSE Begin(r, a, [a EXCEPT !.pc = "tx"])
       /\ UNCHANGED <<db, nextId>>

UpdateVote(r) ==
    \E u \in Users, p \in 1..nextId.vote, q \in Questions, texts \in OptionLists :
        UpdateVoteReq(r, u, p, q, texts)

\* rows of user_votes that go with deleted options (ON DELETE CASCADE of option_id)
BallotsOfOptions(ids) == {uv \in userVotes : uv.optionId \in ids}

\* tx.update(votes).set({ question })
SetQuestionNone(p, q) == votes
SetQuestion(p, q) == {IF v.id = p THEN [v EXCEPT !.question = q] ELSE v : v \in votes}

\* the rows tx.insert(voteOptions).values(newOptions) adds: vote_count takes its
\* default 0
NewOptions(p, texts) ==
    {[id |-> nextId.option + i - 1, voteId |-> p, text |-> texts[i], voteCount |-> 0] :
        i \in 1..Len(texts)}

\* tx.delete(voteOptions) of the poll, then the insert of the new options
MergedOptions(p, texts) == voteOptions \cup NewOptions(p, texts)
ReplacedOptions(p, texts) == (voteOptions \ OptionsOf(p)) \cup NewOptions(p, texts)

\* db.transaction: set the question, delete the options, insert the new ones
UpdateTx(r) ==
    /\ req[r].pc = "tx"
    /\ IF ~VoteExists(req[r].vote)
       THEN \* the insert violates the foreign key and the transaction rolls back
            /\ Step(r, Answer(req[r], UpdateVoteCatch(MsgDb)))
            /\ UNCHANGED <<db, nextId>>
       ELSE LET p == req[r].vote
                old == OptionsOf(p)
                n == Len(req[r].texts)
            IN /\ votes' = SetQuestion(p, req[r].question)
               /\ voteOptions' = ReplacedOptions(p, req[r].texts)
               /\ userVotes' = userVotes \ BallotsOfOptions(OptionIds(old))
               /\ nextId' = [nextId EXCEPT !.option = @ + n]
               /\ Step(r, Answer(req[r], "ok"))
               /\ UNCHANGED <<userRegions, comments, likes>>

\* ------------------------------------------------------------- deleteVote
\* DELETE /api/votes/:id, up to the ownership check
DeleteVoteReq(r, u, p) ==
    LET a == New("deleteVote", u, p)
    IN /\ CanStart(r)
       /\ IF \A v \in VoteRow(p) : v.creatorId # u
          THEN Begin(r, a, Answer(a, DeleteVoteCatch(MsgNoPermission)))
          ELSE Begin(r, a, [a EXCEPT !.pc = "delete"])
       /\ UNCHANGED <<db, nextId>>

DeleteVote(r) == \E u \in Users, p \in 1..nextId.vote : DeleteVoteReq(r, u, p)

\* await db.delete(votes), with the cascades of the schema
DeleteExec(r) ==
    /\ req[r].pc = "delete"
    /\ req[r].op = "deleteVote"
    /\ LET p == req[r].vote
           old == OptionsOf(p)
       IN /\ votes' = votes \ VoteRow(p)
          /\ voteOptions' = voteOptions \ old
          /\ userVotes' = {uv \in userVotes :
                              uv.voteId # p /\ uv.optionId \notin OptionIds(old)}
          /\ comments' = {c \in comments : c.voteId # p}
          /\ likes' = {l \in likes : l.voteId # p}
    /\ Step(r, Answer(req[r], "ok"))
    /\ UNCHANGED <<userRegions, nextId>>

\* ------------------------------------------------------------- toggleLike
\* the unique constraint likes(user_id, vote_id)
LikeUniqueOkNone(u, p) == TRUE
LikeUniqueOk(u, p) == \A l \in likes : ~(l.userId = u /\ l.voteId = p)

\* the select of toggleLike
existingLikeNone(u, p) == {}
existingLike(u, p) == {l \in likes : l.userId = u /\ l.voteId = p}

\* POST /api/votes/:id/like, up to the select of toggleLike
ToggleLikeReq(r, u, p) ==
    LET a == New("toggleLike", u, p)
    IN /\ CanStart(r)
       /\ Begin(r, a, [a EXCEPT !.pc = "write", !.existing = (existingLike(u, p) # {})])
       /\ UNCHANGED <<db, nextId>>

ToggleLike(r) == \E u \in Users, p \in 1..nextId.vote : ToggleLikeReq(r, u, p)

\* requests that have read the like of (u, p) and not yet written it
Readers(r, u, p) ==
    {s \in Reqs \ {r} : /\ req[s].op = "toggleLike" /\ req[s].pc = "write"
                        /\ req[s].user = u /\ req[s].vote = p}

\* the branch of toggleLike taken on what the select returned
ToggleWrite(r) ==
    /\ req[r].pc = "write"
    /\ LET u == req[r].user
           p == req[r].vote
           mine(rq) == [s \in Reqs |->
                          IF s = r THEN rq
                          ELSE IF s \in Readers(r, u, p) THEN [req[s] EXCEPT !.peer = r]
                          ELSE req[s]]
       IN IF req[r].existing
          THEN /\ likes' = {l \in likes : ~(l.userId = u /\ l.voteId = p)}
               /\ req' = mine([req[r] EXCEPT !.pc = "count", !.liked = FALSE])
               /\ UNCHANGED nextId
          ELSE IF VoteExists(p) /\ LikeUniqueOk(u, p)
          THEN /\ likes' = likes \cup {[id |-> nextId.like, voteId |-> p, userId |-> u]}
               /\ nextId' = [nextId EXCEPT !.like = @ + 1]
               /\ req' = mine([req[r] EXCEPT !.pc = "count", !.liked = TRUE])
          ELSE \* foreign key likes.vote_id, or the unique constraint
               /\ req' = [req EXCEPT ![r] = Answer(req[r], GenericCatch(MsgDb))]
               /\ UNCHANGED <<likes, nextId>>
    /\ Record(req'[r])
    /\ UNCHANGED <<userRegions, votes, voteOptions, userVotes, comments, nops, mode, view>>

\* const likesCount = await storage.getLikesCount(voteId); res.json(...)
ToggleCount(r) ==
    /\ req[r].pc = "count"
    /\ Step(r, Answer([req[r] EXCEPT !.count = getLikesCount(req[r].vote)], "ok"))
    /\ UNCHANGED <<db, nextId>>

\* --------------------------------------------------------------- comments
\* POST /api/votes/:id/comments
CreateCommentReq(r, u, p, text) ==
    LET a == New("createComment", u, p)
    IN /\ CanStart(r)
       /\ IF text = ""
          THEN /\ Begin(r, a, Answer(a, "ValidationError"))
               /\ UNCHANGED <<db, nextId>>
          ELSE IF ~VoteExists(p)
          THEN \* foreign key comments.vote_id
               /\ Begin(r, a, Answer(a, GenericCatch(MsgDb)))
               /\ UNCHANGED <<db, nextId>>
          ELSE /\ comments' = comments \cup
                      {[id |-> nextId.comment, voteId |-> p, userId |-> u,
                        content |-> text]}
               /\ nextId' = [nextId EXCEPT !.comment = @ + 1]
               /\ Begin(r, a, Answer(a, "ok"))
               /\ UNCHANGED <<userRegions, votes, voteOptions, userVotes, likes>>

CreateComment(r) ==
    \E u \in Users, p \in 1..nextId.vote, text \in CommentTexts :
        CreateCommentReq(r, u, p, text)

\* DELETE /api/comments/:id, up to the ownership check
DeleteCommentReq(r, u, c) ==
    LET a == [New("deleteComment", u, 0) EXCEPT !.comment = c]
    IN /\ CanStart(r)
       /\ IF \A x \in {y \in comments : y.id = c} : x.userId # u
          THEN Begin(r, a, Answer(a, GenericCatch(MsgNoPermission)))
          ELSE Begin(r, a, [a EXCEPT !.pc = "delete"])
       /\ UNCHANGED <<db, nextId>>

DeleteComment(r) == \E u \in Users, c \in 1..nextId.comment : DeleteCommentReq(r, u, c)

\* await db.delete(comments)
DeleteCommentExec(r) ==
    /\ req[r].pc = "delete"
    /\ req[r].op = "deleteComment"
    /\ comments' = {c \in comments : c.id # req[r].comment}
    /\ Step(r, Answer(req[r], "ok"))
    /\ UNCHANGED <<userRegions, votes, voteOptions, userVotes, likes, nextId>>

\* ---------------------------------------------------------------- regions
\* The region tree, seeded at startup (no handler writes it): the country, two
\* provinces, two cities of the first province and one of the second.
regions ==
    {[id |-> 1, level |-> "country", parentId |-> 0],
     [id |-> 2, level |-> "province", parentId |-> 1],
     [id |-> 3, level |-> "province", parentId |-> 1],
     [id |-> 4, level |-> "city", parentId |-> 2],
     [id |-> 5, level |-> "city", parentId |-> 2],
     [id |-> 6, level |-> "city", parentId |-> 3]}

\* DatabaseStorage.getRegionById
getRegionById(id) == {g \in regions : g.id = id}
\* select from regions where parentId = id
childRegionsAll(id) == {g \in regions : g.level = "city"}
childRegions(id) == {g \in regions : g.parentId = id}

\* ------------------------------------------------------------- poll views
NoUser == ""        \* the request carries no identity
Viewers == Users \cup {NoUser}
SortBys == {"", "participants", "newest", "oldest"}

\* the sequences that list the elements of S once each
Perms(S) ==
    {f \in [1..Cardinality(S) -> S] : \A i, j \in 1..Cardinality(S) : i # j => f[i] # f[j]}

\* Array.prototype.sort with a comparator that subtracts keys: ascending in
\* key, elements of equal key in their order in seq (the sort is stable)
StableSort(seq, key) ==
    LET n == Len(seq)
        pos(i) == 1 + Cardinality({j \in 1..n : \/ key[j] < key[i]
                                                \/ key[j] = key[i] /\ j < i})
    IN [p \in 1..n |-> seq[CHOOSE i \in 1..n : pos(i) = p]]

RECURSIVE Flatten(_)
Flatten(ss) == IF ss = <<>> THEN <<>> ELSE Head(ss) \o Flatten(Tail(ss))

\* options.reduce((sum, option) => sum + (option.voteCount || 0), 0)
RECURSIVE totalVotes(_)
totalVotesOfFirst(options) ==
    IF options = {} THEN 0 ELSE (CHOOSE x \in options : TRUE).voteCount
totalVotes(options) ==
    IF options = {} THEN 0
    ELSE LET x == CHOOSE x \in options : TRUE
         IN x.voteCount + totalVotes(options \ {x})

\* DatabaseStorage.getUserVoteOption: the optionId of the first row the select
\* returns (any of the user's ballots on the poll), 0 for undefined
getUserVoteOptionNone(u, p) == {0}
getUserVoteOption(u, p) ==
    LET rows == {uv \in userVotes : uv.userId = u /\ uv.voteId = p}
    IN IF rows = {} THEN {0} ELSE {uv.optionId : uv \in rows}

\* what getUserVoteOption returns for each poll, for the viewer u
Picks(u) ==
    LET any == UNION {getUserVoteOption(u, p) : p \in 1..nextId.vote}
    IN {f \in [1..nextId.vote -> any] :
           \A p \in 1..nextId.vote : f[p] \in getUserVoteOption(u, p)}

\* the poll view built by getVoteById, and by the loop of getVotesByRegion, for
\* the joined row v: userVotedOptionId 0 stands for undefined
VoteDetails(v, u, uvo) ==
    LET options == OptionsOf(v.id)
        total == totalVotes(options)
    IN [id |-> v.id, question |-> v.question, regionId |-> v.regionId,
        createdAt |-> v.createdAt,
        options |-> {[id |-> o.id, text |-> o.text, voteCount |-> o.voteCount,
                      percentage |-> percentage(o.voteCount, total)] : o \in options},
        totalVotes |-> total,
        hasUserVoted |-> u # NoUser /\ uvo # 0,
        userVotedOptionId |-> IF u # NoUser THEN uvo ELSE 0,
        commentsCount |-> Cardinality({c \in comments : c.voteId = v.id}),
        likesCount |-> getLikesCount(v.id),
        hasUserLiked |-> u # NoUser /\ hasUserLiked(u, v.id)]

\* innerJoin(users) and innerJoin(regions): a poll without its creator's row or
\* its region's row is not selected
Joined(rows) == {v \in rows : v.creatorId \in Users /\ getRegionById(v.regionId) # {}}

\* orderBy(desc(votes.createdAt)): tb is the order in which the database
\* returns rows of equal createdAt
OrderByCreatedAtDesc(rows, tb) ==
    LET seq == SelectSeq(tb, LAMBDA v : v \in rows)
    IN StableSort(seq, [i \in 1..Len(seq) |-> 0 - seq[i].createdAt])

\* DatabaseStorage.getVoteById: the views of poll id (none: undefined)
getVoteById(id, u, pick) ==
    {VoteDetails(v, u, pick[v.id]) : v \in Joined(VoteRow(id))}

\* the switch (sortBy) at the end of getVotesByRegion
SortViews(result, sortBy) ==
    IF sortBy = "participants"
    THEN StableSort(result, [i \in 1..Len(result) |-> 0 - result[i].totalVotes])
    ELSE IF sortBy = "newest"
    THEN StableSort(result, [i \in 1..Len(result) |-> 0 - result[i].createdAt])
    ELSE IF sortBy = "oldest"
    THEN StableSort(result, [i \in 1..Len(result) |-> result[i].createdAt])
    ELSE result

\* Texts that a search reads are held as the sequence of their characters.
\* String.prototype.toLowerCase
LowerChar(c) == IF c = "A" THEN "a" ELSE IF c = "B" THEN "b" ELSE c
toLowerCase(s) == [i \in 1..Len(s) |-> LowerChar(s[i])]
\* String.prototype.trim
trim(s) ==
    LET kept == {i \in 1..Len(s) : s[i] # " "}
    IN IF kept = {} THEN <<>>
       ELSE SubSeq(s, CHOOSE i \in kept : \A j \in kept : i <= j,
                      CHOOSE i \in kept : \A j \in kept : i >= j)
\* String.prototype.includes
includes(s, t) == \E k \in 0..(Len(s) - Len(t)) : SubSeq(s, k + 1, k + Len(t)) = t

\* the search filter of getVotesByRegion; searchQuery <<>> is the empty string
\* or no search parameter (both are falsy)
SearchFilter(result, searchQuery) ==
    IF searchQuery # <<>> /\ trim(searchQuery) # <<>>
    THEN LET searchTerm == toLowerCase(searchQuery)
         IN SelectSeq(result, LAMBDA vote :
                \/ includes(toLowerCase(vote.question), searchTerm)
                \/ \E option \in vote.options :
                      includes(toLowerCase(option.text), searchTerm))
    ELSE result

\* DatabaseStorage.getVotesByRegion
getVotesByRegion(g, u, searchQuery, sortBy, tb, pick) ==
    LET votesData == OrderByCreatedAtDesc(Joined({v \in votes : v.regionId = g}), tb)
        result == [i \in 1..Len(votesData) |->
                      VoteDetails(votesData[i], u, pick[votesData[i].id])]
    IN SortViews(SearchFilter(result, searchQuery), sortBy)

\* DatabaseStorage.getVotesByRegionHierarchy: kids is the
\* order in which the select of the child regions returns them
getVotesByRegionHierarchy(g, u, searchQuery, sortBy, tb, kids, pick) ==
    IF getRegionById(g) = {} THEN <<>>
    ELSE LET selectedRegion == CHOOSE x \in getRegionById(g) : TRUE
         IN IF selectedRegion.level = "country"
            THEN LET allVotes == OrderByCreatedAtDesc(votes, tb)
                     found == SelectSeq(allVotes, LAMBDA v : v \in Joined(votes))
                 IN [i \in 1..Len(found) |-> VoteDetails(found[i], u, pick[found[i].id])]
            ELSE IF selectedRegion.level = "province"
            THEN LET targetRegionIds == <<g>> \o [i \in 1..Len(kids) |-> kids[i].id]
                     result == Flatten([i \in 1..Len(targetRegionIds) |->
                                  getVotesByRegion(targetRegionIds[i], u, searchQuery,
                                                   sortBy, tb, pick)])
                 IN StableSort(result, [i \in 1..Len(result) |-> 0 - result[i].createdAt])
            ELSE getVotesByRegion(g, u, searchQuery, sortBy, tb, pick)

\* GET /api/votes, served while no write is in flight
GetVotesReq(g, u, searchQuery, sortBy, tb, kids, pick) ==
    /\ \A r \in Reqs : Free(r)
    /\ view' = [op |-> "getVotes", region |-> g, vote |-> 0, user |-> u,
                sortBy |-> sortBy, search |-> searchQuery,
                result |-> IF g = 0 THEN "ValidationError" ELSE "ok",
                polls |-> IF g = 0 THEN <<>>
                          ELSE getVotesByRegionHierarchy(g, u, searchQuery, sortBy,
                                                         tb, kids, pick)]
    /\ UNCHANGED <<db, nextId, req, nops, mode, hist>>

GetVotesSearch(gs, us, terms, sorts) ==
    \E g \in gs, u \in us, searchQuery \in terms, sortBy \in sorts, tb \in Perms(votes) :
        \E kids \in Perms(childRegions(g)), pick \in Picks(u) :
            GetVotesReq(g, u, searchQuery, sortBy, tb, kids, pick)

\* the list request without a search parameter
GetVotes(gs, us, sorts) == GetVotesSearch(gs, us, {<<>>}, sorts)

\* GET /api/votes/:id, served while no write is in flight
GetVoteReq(id, u, pick) ==
    /\ \A r \in Reqs : Free(r)
    /\ view' = [op |-> "getVote", region |-> 0, vote |-> id, user |-> u,
                sortBy |-> "", search |-> <<>>,
                result |-> IF getVoteById(id, u, pick) = {} THEN "NotFound" ELSE "ok",
                polls |-> IF getVoteById(id, u, pick) = {} THEN <<>>
                          ELSE <<CHOOSE x \in getVoteById(id, u, pick) : TRUE>>]
    /\ UNCHANGED <<db, nextId, req, nops, mode, hist>>

GetVote(us) ==
    \E id \in 1..nextId.vote, u \in us :
        \E pick \in Picks(u) : GetVoteReq(id, u, pick)

\* ------------------------------------------- the databases reads run on
PollIds == 1..MaxPolls
CreatedAts == 1..MaxPolls
PollRegionIds == {1, 2, 3, 4, 6}
RegionIds == 0..(Cardinality(regions) + 1)     \* 0: no regionId; the last: no such region

\* The database after u1 has created the polls PollIds, poll i in region rg[i]
\* at time at[i] with the options "a" and "b", after the ballots bl[i] (records
\* [n, user, option]: the n-th ballot on the poll, cast for its first or second
\* option) have been cast and counted, and after the users lk[i] have liked it.
PollsWith(rg, at, bl, lk) ==
    /\ votes = {[id |-> i, question |-> "q1", creatorId |-> "u1",
                 regionId |-> rg[i], isActive |-> TRUE, endsAt |-> 0,
                 createdAt |-> at[i]] : i \in PollIds}
    /\ voteOptions =
          {[id |-> 2 * (c[1] - 1) + c[2], voteId |-> c[1], text |-> <<"a", "b">>[c[2]],
            voteCount |-> Cardinality({b \in bl[c[1]] : b.option = c[2]})] :
              c \in PollIds \X (1..2)}
    /\ userVotes =
          UNION {{[id |-> 2 * MaxCount * (i - 1) + b.n, userId |-> b.user, voteId |-> i,
                   optionId |-> 2 * (i - 1) + b.option] : b \in bl[i]} : i \in PollIds}
    /\ comments = {}
    /\ userRegions = {}
    /\ likes = UNION {{[id |-> 2 * (i - 1) + (IF u = "u1" THEN 1 ELSE 2),
                        voteId |-> i, userId |-> u] : u \in lk[i]} : i \in PollIds}
    /\ nextId = [vote |-> MaxPolls + 1, option |-> 2 * MaxPolls + 1,
                 userVote |-> 2 * MaxCount * MaxPolls + 1, comment |-> 1,
                 like |-> 2 * MaxPolls + 1]
    /\ req = [r \in Reqs |-> Idle]
    /\ nops = 0
    /\ hist = <<>>
    /\ view = NoView
    /\ mode = "serial"

Ballot(k, u, o) == [n |-> k, user |-> u, option |-> o]

\* polls in any regions, created at any times (equal ones too), voted on or not
RegionInit ==
    \E rg \in [PollIds -> PollRegionIds], at \in [PollIds -> CreatedAts] :
        \E bl \in [PollIds -> {{}, {Ballot(1, "u1", 1)}}] :
            PollsWith(rg, at, bl, [i \in PollIds |-> {}])

\* what the users have done on a poll: no ballot, one, two for different or for
\* the same option, and two ballots of one user (castVote requests that overlapped)
ViewBallots ==
    {{}, {Ballot(1, "u1", 1)},
     {Ballot(1, "u1", 1), Ballot(2, "u2", 2)},
     {Ballot(1, "u1", 1), Ballot(2, "u2", 1)},
     {Ballot(1, "u1", 1), Ballot(2, "u1", 2)}}

\* the first poll in a city, the others in its province; any ballots and likes
ViewInit ==
    \E bl \in [PollIds -> ViewBallots], lk \in [PollIds -> {{}, {"u1"}}] :
        PollsWith([i \in PollIds |-> IF i = 1 THEN 4 ELSE 2], [i \in PollIds |-> i], bl, lk)

\* a ballots for the first option and b for the second, of a + b voters
Voters(a, b) ==
    {Ballot(k, "v" \o ToString(k), IF k <= a THEN 1 ELSE 2) : k \in 1..(a + b)}

\* the first poll with up to MaxCount votes on each of its options
PercentInit ==
    \E a, b \in 0..MaxCount :
        PollsWith([i \in PollIds |-> 4], [i \in PollIds |-> i],
                  [i \in PollIds |-> IF i = 1 THEN Voters(a, b) ELSE {}],
                  [i \in PollIds |-> {}])

\* the texts of the polls a search runs on, and the search parameters
SearchQuestions == {<<"A", "b">>, <<"b", " ", "a">>, <<"b">>}
SearchOptionTexts == {<< <<"b">>, <<"b", " ">> >>, << <<"B", "a">>, <<"b">> >>}
SearchTerms == {<<>>, <<" ">>, <<"a">>, <<"A">>, <<"a", "b">>, <<"b", " ">>, <<" ", "a">>}

\* The database after u1 has created the polls PollIds, each in a province or
\* in a city of it, with any of the questions and option texts above
SearchInit ==
    \E rg \in [PollIds -> {2, 4}], qs \in [PollIds -> SearchQuestions] :
        \E ts \in [PollIds -> SearchOptionTexts] :
            /\ votes = {[id |-> i, question |-> qs[i], creatorId |-> "u1",
                         regionId |-> rg[i], isActive |-> TRUE, endsAt |-> 0,
                         createdAt |-> i] : i \in PollIds}
            /\ voteOptions =
                  {[id |-> 2 * (c[1] - 1) + c[2], voteId |-> c[1],
                    text |-> ts[c[1]][c[2]], voteCount |-> 0] : c \in PollIds \X (1..2)}
            /\ userVotes = {}
            /\ comments = {}
            /\ userRegions = {}
            /\ likes = {}
            /\ nextId = [vote |-> MaxPolls + 1, option |-> 2 * MaxPolls + 1,
                         userVote |-> 1, comment |-> 1, like |-> 1]
            /\ req = [r \in Reqs |-> Idle]
            /\ nops = 0
            /\ hist = <<>>
            /\ view = NoView
            /\ mode = "serial"

\* -------------------------------------------------------- selected region
\* the regionId of the body of POST /api/user/selected-region: none (0), a
\* province, a city of it, a city of the other province
SelectRegionIds == {0, 2, 4, 6}

\* DatabaseStorage.getUserSelectedRegion: the regions the first row of the
\* select can hold (no row: undefined)
getUserSelectedRegion(u) ==
    {g \in regions : \E x \in userRegions :
        x.userId = u /\ x.isSelected /\ x.regionId = g.id}

\* update(userRegions).set({ isSelected: false }).where(eq(userId))
Unselected(u) ==
    {[x EXCEPT !.isSelected = IF x.userId = u THEN FALSE ELSE @] : x \in userRegions}

\* insert(userRegions).values({ userId, regionId, isSelected: true })
\* .onConflictDoNothing(): a row of the same user and region stays as it is
InsertedSelected(u, g) ==
    IF \E x \in userRegions : x.userId = u /\ x.regionId = g
    THEN userRegions
    ELSE userRegions \cup {[userId |-> u, regionId |-> g, isSelected |-> TRUE]}

\* POST /api/user/selected-region: the route's check, then the first statement
\* of setUserSelectedRegion
SelectRegionReq(r, u, g) ==
    LET a == [New("setUserSelectedRegion", u, 0) EXCEPT !.region = g]
    IN /\ CanStart(r)
       /\ IF g = 0
          THEN /\ Begin(r, a, Answer(a, "ValidationError"))
               /\ UNCHANGED <<db, nextId>>
          ELSE /\ Begin(r, a, [a EXCEPT !.pc = "select"])
               /\ userRegions' = Unselected(u)
               /\ UNCHANGED <<votes, voteOptions, userVotes, comments, likes, nextId>>

SelectRegion(r) == \E u \in Users, g \in SelectRegionIds : SelectRegionReq(r, u, g)

\* the second statement of setUserSelectedRegion, and res.json({ success: true })
SelectInsert(r) ==
    /\ req[r].pc = "select"
    /\ userRegions' = InsertedSelected(req[r].user, req[r].region)
    /\ Step(r, Answer(req[r], "ok"))
    /\ UNCHANGED <<votes, voteOptions, userVotes, comments, likes, nextId>>

\* ------------------------------------------------------------------ faults
\* The awaited database call of a request in flight throws (the connection is
\* lost): the route's catch block answers 500.  Statements already executed
\* outside a transaction stay; a transaction in progress rolls back.
Fault(r) ==
    /\ InFlight(r)
    /\ req' = [req EXCEPT ![r] = Answer(req[r], "InternalError")]
    /\ hist' = IF mode = "serial"
               THEN [hist EXCEPT ![Len(hist)].result = "Fault"]
               ELSE hist
    /\ UNCHANGED <<db, nextId, nops, mode, view>>

\* --------------------------------------------------------- specifications
VoteOps(r) ==
    \/ CreateVote(r) \/ CreateOption(r)
    \/ CastVote(r) \/ CastInsert(r) \/ CastIncrement(r)
    \/ UpdateVote(r) \/ UpdateTx(r)
    \/ DeleteVote(r) \/ DeleteExec(r)

LikeOps(r) == ToggleLike(r) \/ ToggleWrite(r) \/ ToggleCount(r)

CommentOps(r) == CreateComment(r) \/ DeleteComment(r) \/ DeleteCommentExec(r)

Next == \E r \in Reqs : VoteOps(r) \/ LikeOps(r) \/ CommentOps(r) \/ Fault(r)

\* every writing handler, requests overlapping freely
Spec == Init /\ [][Next]_vars
\* every writing handler, one request at a time
SeqSpec == SerialInit /\ [][Next]_vars

\* the handlers that read or write polls, options and ballots
VoteNext == \E r \in Reqs : VoteOps(r) \/ Fault(r)
VoteSpec == Init /\ [][VoteNext]_vars
SeqVoteSpec == SerialInit /\ [][VoteNext]_vars

\* the handlers that read or write likes (deleteVote cascades to them)
LikeNext ==
    \E r \in Reqs : \/ CreateVote(r) \/ CreateOption(r)
                     \/ DeleteVote(r) \/ DeleteExec(r)
                     \/ LikeOps(r) \/ Fault(r)
LikeSpec == LikeInit /\ [][LikeNext]_vars
SeqLikeSpec == SerialLikeInit /\ [][LikeNext]_vars

\* casting and deleting on two polls that have comments and likes, one request
\* at a time
DeleteNext ==
    \E r \in Reqs : \/ CastVote(r) \/ CastInsert(r) \/ CastIncrement(r)
                     \/ DeleteVote(r) \/ DeleteExec(r) \/ Fault(r)
SeqDeleteSpec == SerialTwoPollInit /\ [][DeleteNext]_vars

\* the list request for every region id and every sortBy
RegionNext == GetVotes(RegionIds, {NoUser}, SortBys)
RegionSpec == RegionInit /\ [][RegionNext]_vars

\* the list request at each region level and the single-poll request, by each
\* user and anonymously
ViewNext == GetVotes({1, 2, 4}, Viewers, {""}) \/ GetVote(Viewers)
ViewSpec == ViewInit /\ [][ViewNext]_vars

\* the polls of a city and the single poll, read anonymously
PercentNext == GetVotes({4}, {NoUser}, {""}) \/ GetVote({NoUser})
PercentSpec == PercentInit /\ [][PercentNext]_vars

\* the list request at each region level with and without a search parameter
SearchNext == GetVotesSearch({1, 2, 4}, {NoUser}, SearchTerms, {""})
SearchSpec == SearchInit /\ [][SearchNext]_vars

\* selecting regions, requests overlapping freely and one request at a time
SelectNext == \E r \in Reqs : SelectRegion(r) \/ SelectInsert(r) \/ Fault(r)
SelectSpec == Init /\ [][SelectNext]_vars
SeqSelectSpec == SerialInit /\ [][SelectNext]_vars

\* commenting on two polls that have comments, one request at a time
CommentNext == \E r \in Reqs : CommentOps(r) \/ Fault(r)
SeqCommentSpec == SerialTwoPollInit /\ [][CommentNext]_vars

\* casting and updating on two polls that have comments and likes, one request
\* at a time
UpdateNext ==
    \E r \in Reqs : \/ CastVote(r) \/ CastInsert(r) \/ CastIncrement(r)
                     \/ UpdateVote(r) \/ UpdateTx(r) \/ Fault(r)
SeqUpdateSpec == SerialTwoPollInit /\ [][UpdateNext]_vars

\* casting and updating on two polls, one request at a time in the first slot,
\* and the polls as user u1 is shown them in the list of their city and one by
\* one
BallotViewNext ==
    \/ \E u \in Users, p \in 1..2, o \in 1..nextId.option : CastVoteReq(1, u, p, o)
    \/ CastInsert(1) \/ CastIncrement(1)
    \/ \E u \in Users, p \in 1..2 : UpdateVoteReq(1, u, p, "q2", <<"a", "b">>)
    \/ UpdateTx(1) \/ Fault(1)
    \/ GetVotes({4}, {"u1"}, {""})
    \/ GetVote({"u1"})
BallotViewSpec == SerialTwoPollInit /\ [][BallotViewNext]_vars

\* ================================================================= claims
BallotsOf(rows, u, p) == {uv \in rows : uv.userId = u /\ uv.voteId = p}
IsOptionOf(options, o, p) == \E x \in options : x.id = o /\ x.voteId = p
Current == Last(hist)
Serving(o) == hist # <<>> /\ Current.op = o

\* C1 (fails on the code): in every reachable state, requests overlapping,
\* there is at most one user_votes row per (userId, pollId).
C1_OneBallotPerUserPoll ==
    \A u \in Users, p \in 1..nextId.vote : Cardinality(BallotsOf(userVotes, u, p)) <= 1

\* C2: served one after the other, a castVote that directly follows a successful
\* castVote of the same user on the same poll is answered AlreadyVoted, whatever
\* its optionId, and leaves every table as it found it.
C2_SecondCastRejected ==
    (/\ Len(hist) = 2
     /\ hist[1].op = "castVote" /\ hist[2].op = "castVote"
     /\ hist[1].user = hist[2].user /\ hist[1].vote = hist[2].vote)
    => /\ hist[2].result = "AlreadyVoted"
       /\ Tables = hist[2].before

C2_Witness ==
    /\ Len(hist) = 2
    /\ hist[1].op = "castVote" /\ hist[2].op = "castVote"
    /\ hist[1].user = hist[2].user /\ hist[1].vote = hist[2].vote
    /\ hist[1].option # hist[2].option
    /\ hist[2].result = "AlreadyVoted"

\* C3: a castVote answered "ok" has added exactly one user_votes row, for its
\* (userId, pollId, optionId), and raised the voteCount of optionId by exactly
\* one; every other option, every other ballot, and all polls, comments and
\* likes are as the request found them.
C3_CastVoteEffect ==
    (Serving("castVote") /\ Current.result = "ok")
    => LET b == Current.before
           added == userVotes \ b.userVotes
       IN /\ b.userVotes \subseteq userVotes
          /\ Cardinality(added) = 1
          /\ \A uv \in added : /\ uv.userId = Current.user
                               /\ uv.voteId = Current.vote
                               /\ uv.optionId = Current.option
          /\ \E x \in b.voteOptions : x.id = Current.option
          /\ voteOptions = {IF x.id = Current.option
                            THEN [x EXCEPT !.voteCount = @ + 1] ELSE x :
                            x \in b.voteOptions}
          /\ votes = b.votes /\ comments = b.comments /\ likes = b.likes

C3_Witness == Serving("castVote") /\ Current.result = "ok"

\* every poll has options: no createVote was cut short
Complete(b) == \A v \in b.votes : \E x \in b.voteOptions : x.voteId = v.id

\* C4 (fails on the code): a castVote whose optionId is not an option of its
\* pollId is never answered "ok", inserts no ballot and changes no voteCount
\* (stated for polls that all have their options).
C4_ForeignOptionRejected ==
    (/\ Serving("castVote")
     /\ Complete(Current.before)
     /\ ~IsOptionOf(Current.before.voteOptions, Current.option, Current.vote))
    => /\ Current.result # "ok"
       /\ userVotes = Current.before.userVotes
       /\ voteOptions = Current.before.voteOptions

\* C5 (fails on the code): a castVote cut short by a fault leaves the tables as
\* it found them, the fault between its insert and its increment included.
C5_CastFaultRollsBack ==
    (Serving("castVote") /\ Current.result = "Fault") => Tables = Current.before

C7_OneLikePerUserPoll ==
    \A u \in Users, p \in 1..nextId.vote : Cardinality(existingLike(u, p)) <= 1

\* two toggles of one pair overlapped, and the second to write has been answered
C7_Witness ==
    /\ likes # {}
    /\ \E s \in Reqs : /\ req[s].op = "toggleLike" /\ req[s].pc = "done"
                       /\ req[s].peer # 0
                       /\ req[req[s].peer].op = "toggleLike"

LikedIn(rows, u, p) == \E l \in rows : l.userId = u /\ l.voteId = p
LikesIn(rows, p) == Cardinality({l \in rows : l.voteId = p})
TwoToggles ==
    /\ Len(hist) = 2
    /\ hist[1].op = "toggleLike" /\ hist[2].op = "toggleLike"
    /\ hist[1].user = hist[2].user /\ hist[1].vote = hist[2].vote
    /\ hist[2].result \notin {"", "Fault"}

\* C8: served one after the other, a toggleLike that directly follows a
\* successful toggleLike of the same pair succeeds too, reports the opposite
\* of the first, and leaves the pair liked or not, and the poll's likesCount,
\* as they were before the first.
C8_ToggleLikeInvolution ==
    TwoToggles
    => /\ hist[2].result = "ok"
       /\ hist[2].liked # hist[1].liked
       /\ LikedIn(likes, hist[1].user, hist[1].vote)
            = LikedIn(hist[1].before.likes, hist[1].user, hist[1].vote)
       /\ getLikesCount(hist[1].vote) = LikesIn(hist[1].before.likes, hist[1].vote)

\* the pair was liked before the first toggle, and is liked again after the second
C8_Witness ==
    /\ TwoToggles /\ hist[2].result = "ok"
    /\ ~hist[1].liked /\ hist[2].liked
    /\ getLikesCount(hist[1].vote) = 1

\* C9 (fails on the code): when two toggleLike requests of one pair overlap, the
\* second to write completes without error, reports the opposite of the first,
\* and leaves the pair as both requests found it.
C9_ToggleLikeAtomic ==
    [][\A s \in Reqs :
          (ToggleWrite(s) /\ req[s].peer # 0)
          => /\ req'[s].pc = "count"
             /\ req'[s].liked # req[req[s].peer].liked
             /\ (\E l \in likes' : l.userId = req[s].user /\ l.voteId = req[s].vote)
                  = req[s].existing]_vars

\* C10: an updateVote whose user is not the poll's creator is answered Forbidden
\* and leaves the poll's question, its options and their voteCounts (every
\* table) as it found them.
NonCreatorUpdate ==
    /\ Serving("updateVote")
    /\ Len(Current.texts) >= 2
    /\ \E v \in Current.before.votes :
          v.id = Current.vote /\ v.creatorId # Current.user

C10_UpdateByNonCreator ==
    NonCreatorUpdate => Current.result = "Forbidden" /\ Tables = Current.before

C10_Witness ==
    /\ NonCreatorUpdate
    /\ Current.result = "Forbidden"
    /\ \E o \in voteOptions : o.voteId = Current.vote /\ o.voteCount > 0

\* C11: an updateVote answered "ok" has set the poll's question to the new
\* question and left the poll with exactly one option per entry of the new
\* option texts, each with voteCount 0; none of the options the poll had
\* before (nor their counts) remains.
OkUpdate == Serving("updateVote") /\ Current.result = "ok"

C11_UpdateReplacesOptions ==
    OkUpdate
    => LET p == Current.vote
           now == OptionsOf(p)
           was == {x \in Current.before.voteOptions : x.voteId = p}
       IN /\ \A v \in VoteRow(p) : v.question = Current.question
          /\ VoteExists(p)
          /\ Cardinality(now) = Len(Current.texts)
          /\ \E f \in [1..Len(Current.texts) -> now] :
                /\ \A i, j \in DOMAIN f : i # j => f[i] # f[j]
                /\ \A i \in DOMAIN f : f[i].text = Current.texts[i]
          /\ \A x \in now : x.voteCount = 0
          /\ OptionIds(now) \cap OptionIds(was) = {}

\* the poll had votes, and more or other options than the update gives it
C11_Witness ==
    /\ OkUpdate
    /\ \E x \in Current.before.voteOptions : x.voteId = Current.vote /\ x.voteCount > 0
    /\ \A v \in Current.before.votes : v.id = Current.vote => v.question # Current.question

\* the question and the options (id, text, voteCount) of poll p in the tables
PollState(vs, os, p) ==
    [question |-> {v.question : v \in {w \in vs : w.id = p}},
     options |-> {x \in os : x.voteId = p}]

\* C12: updateVote is all-or-nothing.  Its first step (the ownership check)
\* changes no table; the step that ends it either commits the whole update (the
\* new question and exactly the new options, answered "ok") or, the transaction
\* failing or being cut by a fault, leaves every table as it is and is not
\* answered "ok".  So every state between steps shows each poll with its
\* complete old or its complete new question and options.
C12_UpdateAllOrNothing ==
    [][\A r \in Reqs :
          /\ (Free(r) /\ req'[r].op = "updateVote" /\ req'[r] # req[r]) => db' = db
          /\ (req[r].op = "updateVote" /\ req[r].pc = "tx" /\ req'[r] # req[r])
             => \/ /\ req'[r].result = "ok"
                   /\ PollState(votes', voteOptions', req[r].vote)
                        = [question |-> {req[r].question},
                           options |-> NewOptions(req[r].vote, req[r].texts)]
                   /\ Cardinality(NewOptions(req[r].vote, req[r].texts)) >= 2
                \/ /\ req'[r].result = "InternalError"
                   /\ db' = db]_vars

\* an update was cut by a fault, or rolled back, while another request was in
\* flight, and its poll stands with its options
C12_Witness ==
    \E r, s \in Reqs :
        /\ req[r].op = "updateVote" /\ req[r].result = "InternalError"
        /\ InFlight(s)
        /\ \A v \in votes : Cardinality(OptionsOf(v.id)) >= 2

\* C13 (fails on the code): a deleteVote answered "ok" leaves no option, ballot,
\* comment or like of its poll, and leaves the rows of every other poll as it
\* found them.
RowsOfOthers(rows, p) == {x \in rows : x.voteId # p}

C13_DeleteCascades ==
    (Serving("deleteVote") /\ Current.result = "ok")
    => LET p == Current.vote
           b == Current.before
       IN /\ ~VoteExists(p)
          /\ \A x \in voteOptions \cup userVotes \cup comments \cup likes : x.voteId # p
          /\ {v \in votes : v.id # p} = {v \in b.votes : v.id # p}
          /\ RowsOfOthers(voteOptions, p) = RowsOfOthers(b.voteOptions, p)
          /\ RowsOfOthers(userVotes, p) = RowsOfOthers(b.userVotes, p)
          /\ RowsOfOthers(comments, p) = RowsOfOthers(b.comments, p)
          /\ RowsOfOthers(likes, p) = RowsOfOthers(b.likes, p)

\* C14: a deleteVote whose user is not the poll's creator is answered Forbidden
\* and leaves the poll, its options, ballots, comments and likes (every table)
\* as it found them.
NonCreatorDelete ==
    /\ Serving("deleteVote")
    /\ \E v \in Current.before.votes :
          v.id = Current.vote /\ v.creatorId # Current.user

C14_DeleteByNonCreator ==
    NonCreatorDelete => Current.result = "Forbidden" /\ Tables = Current.before

\* the poll has a ballot, a comment and a like when the request is refused
C14_Witness ==
    /\ NonCreatorDelete
    /\ Current.result = "Forbidden"
    /\ \E uv \in userVotes : uv.voteId = Current.vote
    /\ \E c \in comments : c.voteId = Current.vote
    /\ \E l \in likes : l.voteId = Current.vote

\* the list request was answered for a region that exists
Listed == view.op = "getVotes" /\ view.result = "ok" /\ getRegionById(view.region) # {}
LevelOf(g) == (CHOOSE x \in regions : x.id = g).level
ViewIds == {view.polls[i].id : i \in DOMAIN view.polls}

\* C15: on the three-level region tree, the polls listed for a region are: every
\* poll (of any region) for the country; exactly the polls whose regionId is the
\* province or a region whose parentId is the province, for a province; exactly
\* the polls whose regionId is the city, for a city.
C15_RegionResolution ==
    Listed
    => ViewIds =
         {v.id : v \in
            {w \in votes :
               \/ LevelOf(view.region) = "country" /\ getRegionById(w.regionId) # {}
               \/ /\ LevelOf(view.region) = "province"
                  /\ \/ w.regionId = view.region
                     \/ \E g \in regions : g.id = w.regionId /\ g.parentId = view.region
               \/ LevelOf(view.region) = "city" /\ w.regionId = view.region}}

\* a province was asked for: a poll of one of its cities is listed, and a poll of
\* the other province or of that one's city is not
C15_Witness ==
    /\ Listed /\ view.region = 2
    /\ \E i \in DOMAIN view.polls : view.polls[i].regionId = 4
    /\ \E v \in votes : v.regionId \in {3, 6} /\ v.id \notin ViewIds

\* C16 (fails on the code): the list request for a region id that names no
\* region is answered NotFound.
C16_UnknownRegionNotFound ==
    (view.op = "getVotes" /\ view.region # 0 /\ getRegionById(view.region) = {})
    => view.result = "NotFound"

RECURSIVE SumOfCounts(_)
SumOfCounts(options) ==
    IF options = {} THEN 0
    ELSE LET x == CHOOSE x \in options : TRUE
         IN x.voteCount + SumOfCounts(options \ {x})

\* C17: in every poll view of the list request and of the single-poll request,
\* totalVotes is the sum of voteCount over the options of that same view.
C17_TotalIsSumOfCounts ==
    \A i \in DOMAIN view.polls :
        view.polls[i].totalVotes = SumOfCounts(view.polls[i].options)

\* a listed poll with one vote on each of its two options
C17_Witness ==
    /\ view.op = "getVotes"
    /\ \E i \in DOMAIN view.polls :
          /\ view.polls[i].totalVotes = 2
          /\ \A o \in view.polls[i].options : o.voteCount = 1

\* C18 (fails on the code): in every poll view, the percentage of an option is 0
\* when totalVotes is 0 and otherwise voteCount * 100 / totalVotes rounded half
\* up to an integer; it is an integer from 0 to 100.
C18_PercentageHalfUp ==
    \A i \in DOMAIN view.polls :
        LET t == view.polls[i].totalVotes
        IN \A o \in view.polls[i].options :
              /\ o.percentage \in 0..100
              /\ o.percentage = IF t = 0 THEN 0
                                ELSE (200 * o.voteCount + t) \div (2 * t)

\* C19: in every poll view of a request with an identity, hasUserVoted is true
\* exactly when user_votes has a row of that user on that poll, and
\* userVotedOptionId is then the optionId of such a row; in every poll view of
\* an anonymous request hasUserVoted is false, userVotedOptionId is absent and
\* hasUserLiked is false.  For the list request at each region level and for
\* the single-poll request.
C19_ViewerState ==
    \A i \in DOMAIN view.polls :
        LET pv == view.polls[i]
            mine == {uv \in userVotes : uv.userId = view.user /\ uv.voteId = pv.id}
        IN IF view.user = NoUser
           THEN ~pv.hasUserVoted /\ pv.userVotedOptionId = 0 /\ ~pv.hasUserLiked
           ELSE /\ pv.hasUserVoted = (mine # {})
                /\ pv.hasUserVoted => \E uv \in mine : pv.userVotedOptionId = uv.optionId

\* the province's list, asked by u2, shows u2's ballot for the second option of
\* a poll and no ballot on another
C19_Witness ==
    /\ view.op = "getVotes" /\ view.region = 2 /\ view.user = "u2"
    /\ \E i, j \in DOMAIN view.polls :
          /\ view.polls[i].hasUserVoted
          /\ view.polls[i].userVotedOptionId = 2 * view.polls[i].id
          /\ ~view.polls[j].hasUserVoted

\* C20 (fails on the code): the list for a region of any level is ordered as
\* asked: participants by totalVotes, non-increasing; newest by createdAt,
\* non-increasing; oldest by createdAt, non-decreasing; without sortBy by
\* createdAt, non-increasing.
C20_ListOrdered ==
    Listed
    => \A i, j \in DOMAIN view.polls :
          i < j =>
            LET a == view.polls[i]
                b == view.polls[j]
            IN /\ view.sortBy = "participants" => a.totalVotes >= b.totalVotes
               /\ view.sortBy \in {"newest", ""} => a.createdAt >= b.createdAt
               /\ view.sortBy = "oldest" => a.createdAt <= b.createdAt

\* C23: a createVote with fewer than two option texts is answered
\* ValidationError and adds no poll row and no option row (no table changes).
FewOptionsCreate == Serving("createVote") /\ Len(Current.texts) < 2

C23_CreateNeedsTwoOptions ==
    FewOptionsCreate => Current.result = "ValidationError" /\ Tables = Current.before

C23_Witness ==
    /\ FewOptionsCreate /\ Len(Current.texts) = 1
    /\ Current.result = "ValidationError"

\* C26 (fails on the code): in every reachable state, requests overlapping and
\* faults included, every poll has at least two options.
C26_PollHasTwoOptions ==
    \A v \in votes : Cardinality(OptionsOf(v.id)) >= 2

\* C27 (fails on the code): in every reachable state, requests overlapping and
\* faults included, the voteCounts of the options of a poll add up to the
\* number of user_votes rows of that poll.
C27_CountsMatchBallots ==
    \A v \in votes :
        SumOfCounts(OptionsOf(v.id))
          = Cardinality({uv \in userVotes : uv.voteId = v.id})

\* C22 (fails on the code): a deleteComment whose user is not the comment's
\* author is answered Forbidden and leaves the comment (every table) in place;
\* a deleteComment answered "ok" is the author's and removes that comment only.
C22_DeleteCommentByNonAuthor ==
    Serving("deleteComment")
    => LET b == Current.before
           target == {c \in b.comments : c.id = Current.comment}
       IN /\ (\E c \in target : c.userId # Current.user)
             => Current.result = "Forbidden" /\ Tables = b
          /\ Current.result = "ok"
             => /\ \A c \in target : c.userId = Current.user
                /\ comments = b.comments \ target
                /\ votes = b.votes /\ voteOptions = b.voteOptions
                /\ userVotes = b.userVotes /\ likes = b.likes

\* C25 (fails on the code): updateVote and deleteVote on a poll id that names no
\* poll, and deleteComment on a comment id that names no comment, are answered
\* NotFound.
C25_MissingIdNotFound ==
    LET b == Current.before
    IN /\ (/\ Serving("updateVote") /\ Len(Current.texts) >= 2
           /\ \A v \in b.votes : v.id # Current.vote) => Current.result = "NotFound"
       /\ (/\ Serving("deleteVote")
           /\ \A v \in b.votes : v.id # Current.vote) => Current.result = "NotFound"
       /\ (/\ Serving("deleteComment")
           /\ \A c \in b.comments : c.id # Current.comment) => Current.result = "NotFound"

\* C30 (fails on the code): an updateVote answered "ok" leaves the poll's row as
\* it was but for the question, leaves every comment and every like, and leaves
\* the row, the options and the ballots of every other poll.
C30_UpdateFrame ==
    OkUpdate
    => LET p == Current.vote
           b == Current.before
       IN /\ \A v \in b.votes :
                v.id = p => \E w \in votes : [w EXCEPT !.question = v.question] = v
          /\ {v \in votes : v.id # p} = {v \in b.votes : v.id # p}
          /\ comments = b.comments
          /\ likes = b.likes
          /\ RowsOfOthers(voteOptions, p) = RowsOfOthers(b.voteOptions, p)
          /\ RowsOfOthers(userVotes, p) = RowsOfOthers(b.userVotes, p)

\* C29 (fails on the code): every poll view that reports hasUserVoted names, as
\* userVotedOptionId, the id of one of the options it lists.
C29_VotedOptionIsListed ==
    \A i \in 1..Len(view.polls) :
        view.polls[i].hasUserVoted
        => view.polls[i].userVotedOptionId \in {o.id : o \in view.polls[i].options}

\* the polls that the region g shows (see C15)
Visible(g) ==
    {w \in votes :
        \/ LevelOf(g) = "country" /\ getRegionById(w.regionId) # {}
        \/ LevelOf(g) = "province"
           /\ \E x \in getRegionById(w.regionId) : x.id = g \/ x.parentId = g
        \/ LevelOf(g) = "city" /\ w.regionId = g}
\* the question or an option text of poll w contains f, letter case set aside
Matches(w, f) ==
    \/ includes(toLowerCase(w.question), toLowerCase(f))
    \/ \E o \in OptionsOf(w.id) : includes(toLowerCase(o.text), toLowerCase(f))

\* C21 (fails on the code): a list request with a non-blank search parameter,
\* for a region of any level, shows exactly the visible polls whose question or
\* one of whose option texts contains the parameter as a case-insensitive
\* substring.
C21_SearchFilter ==
    (Listed /\ trim(view.search) # <<>>)
    => ViewIds = {w.id : w \in {x \in Visible(view.region) : Matches(x, view.search)}}

\* C24 (fails on the code): no user has two rows of user_regions with
\* isSelected = true.
C24_OneSelectedRegion ==
    \A u \in Users :
        Cardinality({x \in userRegions : x.userId = u /\ x.isSelected}) <= 1

\* C28 (fails on the code): when setUserSelectedRegion(u, g), for a region g
\* that exists, has been answered "ok" with no other request in flight,
\* getUserSelectedRegion(u) returns the region g.
C28_SelectedRegionIsRead ==
    (/\ Serving("setUserSelectedRegion") /\ Current.result = "ok"
     /\ getRegionById(Current.region) # {})
    => getUserSelectedRegion(Current.user) = getRegionById(Current.region)

====
